---- MODULE Spec2Model ----
(***************************************************************************)
(* Model of src/main.py: the expected number of rolls to win a snakes and  *)
(* ladders game.                                                            *)
(*                                                                          *)
(* get_probabilities is modelled statement by statement (one roll of the   *)
(* two nested for loops at a time), make_matrices and np.linalg.solve as   *)
(* one step each.                                                           *)
(*                                                                          *)
(* Number representation.  Every entry of the table is a sum of k terms    *)
(* 1.0 / dice_size; the model stores the integer k (the numerator over the *)
(* common denominator dice_size).  The matrix a is stored the same way, so *)
(* "value -= 1" on the diagonal subtracts dice_size.  The solution of the  *)
(* linear system is the exact rational one, stored as numerators num[i]    *)
(* over one common denominator den.                                         *)
(***************************************************************************)
EXTENDS Integers, FiniteSets, Sequences, TLC

\* Bounds of the model: the largest board, the largest dice, and the most
\* entries of a dictionary that is not a snadder map of the data model.
MaxSize == 4
MaxDice == 3
MaxSnadders == 2

VARIABLES
    entry,        \* which function the caller invoked: "solve" or "get_probabilities"
    size,         \* parameter size / board_size
    dice_size,    \* parameter dice_size
    snadders,     \* parameter snadders, a function from source tile to destination tile
    transitive,   \* parameter transitive
    exact,        \* parameter exact
    pc,           \* position in the code
    idx,          \* loop variable of "for idx in range(size)"
    roll,         \* loop variable of "for roll in range(1, dice_size + 1)"
    end,          \* local variable end
    result,       \* the dictionary result, counts of 1/dice_size per (i, j)
    a,            \* matrix a of make_matrices (numerators over dice_size)
    b,            \* vector b of make_matrices
    solution,     \* what np.linalg.solve returned: [num, den]
    outcome       \* "none", "value", "unspecified", "KeyError" or "LinAlgError"

vars == <<entry, size, dice_size, snadders, transitive, exact, pc, idx, roll,
          end, result, a, b, solution, outcome>>

params == <<entry, size, dice_size, snadders, transitive, exact>>

-----------------------------------------------------------------------------
(* Helpers *)

Tiles(n) == 0..n

Cells(n) == Tiles(n) \X Tiles(n)

RECURSIVE SumTo(_, _)
\* f[0] + ... + f[n]
SumTo(f, n) == IF n < 0 THEN 0 ELSE f[n] + SumTo(f, n - 1)

RowSum(tbl, i, n) == SumTo([j \in Tiles(n) |-> tbl[<<i, j>>]], n)

\* The snadder maps of the data model: keys and values in 1..size-1.
ValidMaps(n) == UNION {[K -> 1..(n - 1)] : K \in SUBSET (1..(n - 1))}

\* Any dictionary of tile numbers, in range or not (one below tile 0 to one past tile size).
AnyMaps(n) ==
    UNION {[K -> (-1)..(n + 1)] : K \in {S \in SUBSET (0..(n + 1)) : Cardinality(S) <= MaxSnadders}}

-----------------------------------------------------------------------------
(* get_probabilities, lines 8-66 *)

\* line 35: every probability is 0 by default, size + 1 states
EmptyTable(n) == [c \in Cells(n) |-> 0]

\* Mutant of SourceTiles: range(size + 1), the end tile rolls too
SourceTilesWithEnd(n) == 0..n

\* line 37: the tiles the outer loop visits, range(size)
SourceTiles(n) == 0..(n - 1)

\* Mutant of Landing: the rolls are range(dice_size), 0 to dice_size - 1
LandingFromZero(i, r) == i + r - 1

\* line 45: end = idx + roll
Landing(i, r) == i + r

\* lines 50 and 53: end in snadders
IsSnadder(t) == t \in DOMAIN snadders

\* Mutant of JumpOnce: a destination that is a snadder is followed once more
JumpTwice(t) ==
    IF t \in DOMAIN snadders
        THEN (IF snadders[t] \in DOMAIN snadders THEN snadders[snadders[t]] ELSE snadders[t])
        ELSE t

\* lines 53-54: just jump once
JumpOnce(t) == IF IsSnadder(t) THEN snadders[t] ELSE t

\* Mutant of Overshoot: the test is end >= size
OvershootAtEnd(i, t) == IF t >= size THEN (IF exact THEN i ELSE size) ELSE t

\* Mutant of Overshoot: the branches of "if exact" are swapped
OvershootSwapped(i, t) == IF t > size THEN (IF exact THEN size ELSE i) ELSE t

\* lines 58-62: past the end tile, stay (exact) or win
Overshoot(i, t) == IF t > size THEN (IF exact THEN i ELSE size) ELSE t

\* Mutant of Credit: = in place of +=
CreditOverwrite(tbl, i, t) == [tbl EXCEPT ![<<i, t>>] = 1]

\* line 64: result[idx, end] += 1.0 / dice_size
Credit(tbl, i, t) == [tbl EXCEPT ![<<i, t>>] = @ + 1]

\* lines 31-35: snadders = snadders or {}; result = {...}; the loops start
BuildTable ==
    /\ pc = "call"
    /\ result' = EmptyTable(size)
    /\ idx' = 0
    /\ roll' = 1
    /\ pc' = "roll"
    /\ UNCHANGED <<params, end, a, b, solution, outcome>>

\* lines 37, 44, 45: the next (idx, roll) of the nested loops
Roll ==
    /\ pc = "roll"
    /\ idx \in SourceTiles(size)
    /\ end' = Landing(idx, roll)
    /\ pc' = "snadder"
    /\ UNCHANGED <<params, idx, roll, result, a, b, solution, outcome>>

\* Mutant of FollowSnadder: "if" in place of "while"
FollowSnadderOnce ==
    /\ pc = "snadder"
    /\ transitive
    /\ end \in DOMAIN snadders
    /\ end' = snadders[end]
    /\ pc' = "overshoot"
    /\ UNCHANGED <<params, idx, roll, result, a, b, solution, outcome>>

\* lines 49-51: one iteration of "while end in snadders"
FollowSnadder ==
    /\ pc = "snadder"
    /\ transitive
    /\ IsSnadder(end)
    /\ end' = snadders[end]
    /\ UNCHANGED <<params, pc, idx, roll, result, a, b, solution, outcome>>

\* lines 49-50: the while loop ends
LeaveSnadders ==
    /\ pc = "snadder"
    /\ transitive
    /\ ~IsSnadder(end)
    /\ pc' = "overshoot"
    /\ UNCHANGED <<params, idx, roll, end, result, a, b, solution, outcome>>

\* Mutant of SingleJump: the else branch loops like the transitive one
SingleJumpLoop ==
    /\ pc = "snadder"
    /\ ~transitive
    /\ IF end \in DOMAIN snadders
          THEN end' = snadders[end] /\ pc' = pc
          ELSE end' = end /\ pc' = "overshoot"
    /\ UNCHANGED <<params, idx, roll, result, a, b, solution, outcome>>

\* lines 52-54: not transitive, a single lookup
SingleJump ==
    /\ pc = "snadder"
    /\ ~transitive
    /\ end' = JumpOnce(end)
    /\ pc' = "overshoot"
    /\ UNCHANGED <<params, idx, roll, result, a, b, solution, outcome>>

\* lines 58-64, then the loops advance (lines 44, 37)
Accumulate ==
    /\ pc = "overshoot"
    /\ <<idx, Overshoot(idx, end)>> \in DOMAIN result
    /\ end' = Overshoot(idx, end)
    /\ result' = Credit(result, idx, Overshoot(idx, end))
    /\ IF roll < dice_size
          THEN roll' = roll + 1 /\ idx' = idx
          ELSE roll' = 1 /\ idx' = idx + 1
    /\ pc' = "roll"
    /\ UNCHANGED <<params, a, b, solution, outcome>>

\* line 64: the key (idx, end) is not in the dictionary
RaiseKeyError ==
    /\ pc = "overshoot"
    /\ <<idx, Overshoot(idx, end)>> \notin DOMAIN result
    /\ end' = Overshoot(idx, end)
    /\ pc' = "error"
    /\ outcome' = "KeyError"
    /\ UNCHANGED <<params, idx, roll, result, a, b, solution>>

\* line 66: return result, after the outer loop is exhausted
ReturnTable ==
    /\ pc = "roll"
    /\ idx \notin SourceTiles(size)
    /\ pc' = "table"
    /\ UNCHANGED <<params, idx, roll, end, result, a, b, solution, outcome>>

-----------------------------------------------------------------------------
(* make_matrices, lines 69-96 *)

\* lines 84-90: a[i, j] = probs[i, j], minus 1 on the diagonal
MatrixA(probs, n) ==
    [c \in Cells(n) |-> IF c[1] = c[2] THEN probs[c] - dice_size ELSE probs[c]]

\* Mutant of VectorB: line 93 is missing
VectorBAllMinusOne(n) == [i \in Tiles(n) |-> -1]

\* lines 92-93: b = -1 everywhere, b[size] = 0
VectorB(n) == [i \in Tiles(n) |-> IF i = n THEN 0 ELSE -1]

MakeMatrices ==
    /\ pc = "table"
    /\ a' = MatrixA(result, size)
    /\ b' = VectorB(size)
    /\ pc' = "matrices"
    /\ UNCHANGED <<params, idx, roll, end, result, solution, outcome>>

-----------------------------------------------------------------------------
(* solve, lines 99-110 *)

\* The sequence <<0, 1, ..., n>>
Indices(n) == [k \in 1..(n + 1) |-> k - 1]

\* s without its k-th element
Without(s, k) == [j \in 1..(Len(s) - 1) |-> IF j < k THEN s[j] ELSE s[j + 1]]

RECURSIVE Det(_, _, _)
\* Determinant of the square submatrix of M on rows rs and columns cs
\* (expansion along the first row of rs).
Det(M, rs, cs) ==
    IF Len(rs) = 0 THEN 1
    ELSE LET r == rs[1]
             term(k) == IF M[<<r, cs[k]>>] = 0 THEN 0
                        ELSE (IF k % 2 = 1 THEN 1 ELSE -1) * M[<<r, cs[k]>>]
                             * Det(M, Tail(rs), Without(cs, k))
         IN  SumTo([k \in 0..Len(cs) |-> IF k = 0 THEN 0 ELSE term(k)], Len(cs))

\* M with column j replaced by the vector v
ReplaceColumn(M, j, v, n) == [c \in Cells(n) |-> IF c[2] = j THEN v[c[1]] ELSE M[c]]

\* The right-hand side over the same denominator as a
Rhs(v, n) == [i \in Tiles(n) |-> dice_size * v[i]]

\* line 108: np.linalg.solve(a, b), the unique x with a x = b (Cramer's rule)
LinalgSolve(M, v, n) ==
    [num |-> [i \in Tiles(n) |->
                 Det(ReplaceColumn(M, i, Rhs(v, n), n), Indices(n), Indices(n))],
     den |-> Det(M, Indices(n), Indices(n))]

\* line 108: whether a has no inverse
Singular(M, n) == Det(M, Indices(n), Indices(n)) = 0

\* lines 108-110: the system has one solution; solve returns float(solution[0])
Solve ==
    /\ pc = "matrices"
    /\ entry = "solve"
    /\ ~Singular(a, size)
    /\ solution' = LinalgSolve(a, b, size)
    /\ outcome' = "value"
    /\ pc' = "returned"
    /\ UNCHANGED <<params, idx, roll, end, result, a, b>>

\* line 108: a is singular.  LAPACK raises LinAlgError when it meets a pivot
\* that is exactly zero; when rounding leaves a tiny pivot instead, it returns
\* numbers that solve nothing.  Either can happen.
SolveSingular ==
    /\ pc = "matrices"
    /\ entry = "solve"
    /\ Singular(a, size)
    /\ \/ outcome' = "LinAlgError" /\ pc' = "error"
       \/ outcome' = "unspecified" /\ pc' = "returned"
    /\ UNCHANGED <<params, idx, roll, end, result, a, b, solution>>

\* line 110: solution[0] as a fraction <<numerator, denominator>>
Estimate == <<solution.num[0], solution.den>>

-----------------------------------------------------------------------------
(* Specifications *)

\* The flags a call may carry: solve (line 106) passes none, so both keep
\* their default False (line 8); a direct call of get_probabilities sets any.
Flags(e) == IF e = "solve" THEN {FALSE} ELSE BOOLEAN

\* A call; validMap tells whether the snadder map is one of the data model
InitWith(validMap) ==
    /\ entry \in {"solve", "get_probabilities"}
    /\ size \in 1..MaxSize
    /\ dice_size \in 1..MaxDice
    /\ snadders \in (IF validMap THEN ValidMaps(size) ELSE AnyMaps(size))
    /\ transitive \in Flags(entry)
    /\ exact \in Flags(entry)
    /\ pc = "call"
    /\ idx = 0
    /\ roll = 0
    /\ end = 0
    /\ result = <<>>
    /\ a = <<>>
    /\ b = <<>>
    /\ solution = <<>>
    /\ outcome = "none"

\* Calls with a snadder map of the data model
Init == InitWith(TRUE)

\* Calls with any dictionary of tile numbers
InitAnyMap == InitWith(FALSE)

\* The statements of get_probabilities on a snadder map of the data model
TableStep ==
    \/ BuildTable
    \/ Roll
    \/ FollowSnadder
    \/ LeaveSnadders
    \/ SingleJump
    \/ Accumulate
    \/ ReturnTable

Next ==
    \/ TableStep
    \/ MakeMatrices
    \/ Solve
    \/ SolveSingular

NextAnyMap ==
    \/ Next
    \/ RaiseKeyError

Spec == Init /\ [][Next]_vars

SpecAnyMap == InitAnyMap /\ [][NextAnyMap]_vars

\* Once called, get_probabilities keeps running: the interpreter executes its
\* next statement (a single thread, no suspension point).
FairSpec == Spec /\ WF_vars(TableStep)

-----------------------------------------------------------------------------
(* Properties *)

NoSnadders == DOMAIN snadders = {}

\* get_probabilities has returned its table
TableReturned == pc \in {"table", "matrices", "returned"} \/ outcome = "LinAlgError"

RECURSIVE Follow(_, _)
\* The tile reached from t by following at most k snadders
Follow(t, k) == IF k = 0 \/ t \notin DOMAIN snadders THEN t ELSE Follow(snadders[t], k - 1)

\* Every chain of snadders ends: no tile leads into a cycle
Acyclic == \A x \in DOMAIN snadders : Follow(x, Cardinality(DOMAIN snadders)) \notin DOMAIN snadders

HasTwoCycle ==
    \E x, y \in DOMAIN snadders : x # y /\ snadders[x] = y /\ snadders[y] = x

\* Every snadder is a ladder
ForwardOnly == \A x \in DOMAIN snadders : snadders[x] > x

\* Total count of the table: the number of roll steps credited so far
TotalMass == SumTo([i \in Tiles(size) |-> RowSum(result, i, size)], size)

RECURSIVE Reach(_, _)
\* The tiles reachable from the set S in at most k transitions of positive probability
Reach(S, k) ==
    IF k = 0 THEN S
    ELSE Reach(S \cup {t \in Tiles(size) : \E s \in S : result[<<s, t>>] > 0}, k - 1)

\* C1: in the table get_probabilities returns, the counts of every row
\* s in 0..size-1 add up to dice_size (the probabilities sum to exactly 1: each
\* of the dice_size rolls added 1/dice_size once) and every entry is between 0
\* and dice_size (a probability in [0, 1]).
C1_RowsSumToOne ==
    TableReturned =>
        /\ \A s \in 0..(size - 1) : RowSum(result, s, size) = dice_size
        /\ \A c \in Cells(size) : result[c] >= 0 /\ result[c] <= dice_size

C1_Witness ==
    /\ pc = "table"
    /\ ~NoSnadders
    /\ \E c \in Cells(size) : result[c] >= 2 /\ result[c] < dice_size

\* C2: a snadder map with a key or a value outside 1..size-1 never gets a
\* table back from get_probabilities.
C2_OutOfRangeMapFails ==
    snadders \notin ValidMaps(size) => ~TableReturned

\* C3: with transitive set and a 2-cycle a -> b -> a in the snadder map,
\* get_probabilities never returns a table and nothing is ever solved: no
\* outcome is produced at all.
C3_TwoCycleNeverReturns ==
    (transitive /\ HasTwoCycle) => (~TableReturned /\ outcome = "none")

C3_Witness ==
    /\ transitive
    /\ HasTwoCycle
    /\ pc = "snadder"
    /\ end \in DOMAIN snadders
    /\ snadders[snadders[end]] = end
    /\ end # idx + roll

\* C4: the tile handed to the overshoot rule is the landing tile idx + roll
\* resolved through the snadders: a single lookup when transitive is off (even
\* if the destination is a key); followed until the tile is no key when
\* transitive is on.  So with transitive on and exact off no count ever sits on
\* a destination that is a snadder key.
C4_SnadderResolution ==
    /\ (pc = "overshoot" /\ ~transitive) =>
           end = (IF idx + roll \in DOMAIN snadders THEN snadders[idx + roll] ELSE idx + roll)
    /\ (pc = "overshoot" /\ transitive) =>
           /\ end \notin DOMAIN snadders
           /\ end = Follow(idx + roll, Cardinality(DOMAIN snadders))
    /\ (pc # "call" /\ transitive /\ ~exact) =>
           \A c \in Cells(size) : result[c] > 0 => c[2] \notin DOMAIN snadders

C4_Witness ==
    /\ pc = "overshoot"
    /\ ~transitive
    /\ idx + roll \in DOMAIN snadders
    /\ end \in DOMAIN snadders
    /\ end # idx + roll

\* C5: a roll whose resolved tile is past size is credited to (idx, idx) when
\* exact is set and to (idx, size) otherwise; any other roll is credited to
\* its resolved tile.  With exact off and no snadders no tile below size keeps
\* a count on itself.
C5_OvershootPolicy ==
    /\ [][pc = "overshoot" =>
            result' = [result EXCEPT
                ![<<idx, IF end > size THEN (IF exact THEN idx ELSE size) ELSE end>>] = @ + 1]]_vars
    /\ []((TableReturned /\ ~exact /\ NoSnadders) =>
            \A s \in 0..(size - 1) : result[<<s, s>>] = 0)

C5_Witness ==
    /\ pc = "table"
    /\ exact
    /\ NoSnadders
    /\ \E s \in 0..(size - 1) : result[<<s, s>>] > 0 /\ result[<<s, size>>] > 0

\* C6: row size of the table is all zeros, so row size of a is -1 on the
\* diagonal (-dice_size over dice_size) and 0 elsewhere, with b[size] = 0;
\* every other row i has a[i, j] = P(i -> j) - [i = j] and b[i] = -1.
C6_AbsorbingRow ==
    pc \in {"matrices", "returned", "error"} =>
        /\ \A j \in Tiles(size) : result[<<size, j>>] = 0
        /\ a[<<size, size>>] = -dice_size
        /\ \A j \in 0..(size - 1) : a[<<size, j>>] = 0
        /\ b[size] = 0
        /\ \A i \in 0..(size - 1) :
              /\ b[i] = -1
              /\ \A j \in Tiles(size) :
                    a[<<i, j>>] = result[<<i, j>>] - (IF i = j THEN dice_size ELSE 0)

C6_Witness ==
    /\ pc = "matrices"
    /\ exact
    /\ ~NoSnadders
    /\ \E i \in 0..(size - 1) : a[<<i, i>>] > -dice_size /\ a[<<i, i>>] < 0

\* C7: solve with no snadders and a dice of one side returns exactly size:
\* the table is the chain i -> i + 1, the system has one solution, and that
\* solution is e[i] = size - i.
C7_OneSidedDice ==
    (entry = "solve" /\ dice_size = 1 /\ NoSnadders) =>
        /\ pc # "error"
        /\ pc \in {"table", "matrices", "returned"} =>
              \A c \in Cells(size) : result[c] = (IF c[2] = c[1] + 1 THEN 1 ELSE 0)
        /\ pc = "returned" =>
              /\ outcome = "value"
              /\ solution.den # 0
              /\ \A i \in Tiles(size) : solution.num[i] = (size - i) * solution.den
              /\ Estimate[1] = size * Estimate[2]

C7_Witness ==
    /\ pc = "returned"
    /\ dice_size = 1
    /\ NoSnadders
    /\ size = MaxSize
    /\ solution.num[0] = size * solution.den

\* C8: on a board with no snadders (solve leaves exact off) the solution has
\* e[size] = 0 and e[i] > e[i + 1] for every i in 0..size-1.
C8_StrictlyDecreasing ==
    (pc = "returned" /\ NoSnadders) =>
        /\ outcome = "value"
        /\ solution.num[size] = 0
        /\ \A i \in 0..(size - 1) :
              (solution.num[i] - solution.num[i + 1]) * solution.den > 0

C8_Witness ==
    /\ pc = "returned"
    /\ NoSnadders
    /\ dice_size >= 2
    /\ size >= 3
    /\ (solution.num[0] - solution.num[1]) * solution.den > 0
    /\ solution.num[0] # size * solution.den

\* C9: when transitive is off (cyclic maps included) or the map has no cycle,
\* get_probabilities returns, having credited exactly size * dice_size rolls;
\* solve calls it with transitive and exact off, so its table is always built.
C9_TableConstructionTerminates ==
    /\ [](entry = "solve" => (~transitive /\ ~exact))
    /\ (~transitive \/ Acyclic) ~> (TableReturned /\ TotalMass = size * dice_size)

C9_Witness ==
    /\ pc = "table"
    /\ ~transitive
    /\ ~Acyclic
    /\ TotalMass = size * dice_size

\* C10: on a board whose snadders all lead forward (or with none), in the
\* table returned under any setting of transitive and exact, every tile
\* s in 0..size-1 reaches tile size through transitions of positive probability.
C10_ForwardBoardsReachEnd ==
    (TableReturned /\ ForwardOnly) =>
        \A s \in 0..(size - 1) : size \in Reach({s}, size)

C10_Witness ==
    /\ pc = "table"
    /\ ForwardOnly
    /\ ~NoSnadders
    /\ exact
    /\ transitive
    /\ \E s \in 0..(size - 1) : result[<<s, s>>] > 0 /\ size \in Reach({s}, size)

====
